---- MODULE Spec2Model ----
(***************************************************************************)
(* LogtoClient (browser client): sign-in / sign-out state machine, the     *)
(* lazily fetched OIDC discovery document, the token fields and the        *)
(* localStorage / sessionStorage slots they are kept in.                   *)
(*                                                                         *)
(* JavaScript runs each async method to its next await without             *)
(* interleaving; every action below is one such run of one call.  The      *)
(* collaborators (fetchOidcConfig, revoke, generateCodeChallenge) answer   *)
(* in a later step, by returning or by throwing.                           *)
(***************************************************************************)
EXTENDS Integers, Sequences, FiniteSets, TLC

\* ------------------------------------------------------------------ bounds
\* Number of method calls (signIn, signOut, getOidcConfig) made on the client.
MaxCalls == 2

Calls == 1..MaxCalls

\* ------------------------------------------------------------ JS values
\* undefined and null, as values distinct from every string.
UNDEFINED == "<undefined>"
NULL == "<null>"

\* JS truthiness of a string-or-absent value.
Boolean(v) == v \notin {UNDEFINED, NULL, ""}

\* @silverhand/essentials conditional(): a falsy value becomes undefined.
conditional(v) == IF Boolean(v) THEN v ELSE UNDEFINED

\* --------------------------------------------------------- configuration
\* logtoConfig of the one client instance.
clientId == "app"
customScopes == {"email"}
resources == {"https://api"}

\* getLogtoKey(clientId): the storage key, derived from the client identifier.
getLogtoKey(id) == "logto:" \o id
logtoStorageKey == getLogtoKey(clientId)
IdTokenKey == logtoStorageKey \o ":idToken"
RefreshTokenKey == logtoStorageKey \o ":refreshToken"

LocalKeys == {IdTokenKey, RefreshTokenKey}
SessionKeys == {logtoStorageKey}

\* Another client instance, with another client identifier, shares the two
\* storages: its keys and what it keeps under them.
otherClientId == "other-app"
otherStorageKey == getLogtoKey(otherClientId)
OtherLocalKeys == {otherStorageKey \o ":idToken", otherStorageKey \o ":refreshToken"}
OtherSessionKeys == {otherStorageKey}
OtherStoredToken == "other.token"

\* Tokens left in durable storage by an earlier page load.
StoredIdToken == "id.token"
StoredRefreshToken == "refresh.token"

\* Discovery documents the provider may answer with.
ConfigA ==
  [authorizationEndpoint |-> "A/auth", endSessionEndpoint |-> "A/end",
   revocationEndpoint |-> "A/revoke"]
ConfigB ==
  [authorizationEndpoint |-> "B/auth", endSessionEndpoint |-> "B/end",
   revocationEndpoint |-> "B/revoke"]
Configs == {ConfigA, ConfigB}
NoConfig ==
  [authorizationEndpoint |-> UNDEFINED, endSessionEndpoint |-> UNDEFINED,
   revocationEndpoint |-> UNDEFINED]

RedirectUris == {"https://app/cb1", "https://app/cb2"}
PostLogoutUris == {"https://app/bye"}

\* withReservedScopes(scopes): the custom scopes joined with the reserved ones.
ReservedScopes == {"openid", "offline_access"}
withReservedScopes(scopes) == scopes \cup ReservedScopes

\* generateCodeChallenge(codeVerifier): a one-way digest of the verifier.
generateCodeChallenge(verifier) == <<"S256", verifier>>

\* generateCodeVerifier() / generateState(): a random string. Every draw gives
\* a new non-empty string, named by the call that draws it and what it draws.
generateCodeVerifier(c) == <<"random", c, "codeVerifier">>
generateState(c) == <<"random", c, "state">>
EmptyString == <<>>

\* JSON values: a string with its content, a number.
JsonString(x) == <<"string", x>>
JsonNumber(n) == <<"number", n>>

\* The texts a storage slot can hold: the text of a JSON object (a record of
\* JSON values), the JSON text null, a text that is not JSON, the empty
\* string; NoItem is the absent slot (getItem answers null).
JsonText(obj) == <<"json", obj>>
JsonNullText == <<"jsonnull">>
NotJsonText == <<"text", "not json">>
EmptyText == <<"text", "">>
NoItem == <<>>

\* JSON.stringify of a sign-in session item: the text of the object whose
\* fields are the item's strings.
Stringify(item) == JsonText([f \in DOMAIN item |-> JsonString(item[f])])

\* A sign-in session item left in sessionStorage by an earlier page load.
PriorItem ==
  [redirectUri |-> "https://app/cb1", codeVerifier |-> generateCodeVerifier(0),
   state |-> generateState(0)]

\* The sign-in session item of the other client instance.
OtherItem ==
  [redirectUri |-> "https://other/cb", codeVerifier |-> generateCodeVerifier(-1),
   state |-> generateState(-1)]

\* ------------------------------------------------------------------ state
VARIABLES
  localStorage,    \* durable storage: key -> string or NULL
  sessionStorage,  \* ephemeral storage: key -> stored JSON text or NoItem
  idToken,         \* this.idToken
  refreshToken,    \* this.refreshToken
  accessTokenMap,  \* this.accessTokenMap, as its set of keys
  oidcConfig,      \* this.oidcConfig (NoConfig: undefined)
  pc,              \* where each call stands
  kind,            \* the method each call runs
  arg,             \* its argument (redirectUri / postLogoutRedirectUri)
  cfg,             \* what its getOidcConfig() resolved with
  codeVerifier,    \* signIn's local codeVerifier
  url,             \* signOut's local url
  error,           \* the error a call was rejected with
  revoked,         \* how the call's revoke() ended
  ops,             \* the storage writes each call made, in order
  assigned,        \* the URLs given to window.location.assign, in order
  fetchCount,      \* number of fetchOidcConfig invocations
  sessionRead,     \* what the last read of signInSession gave
  token,           \* the JWT given to decodeToken, as its '.'-separated parts
  payloadString,   \* decodeToken's payload text as handed to Buffer.from
  decoded,         \* what decodeToken returned or threw
  verifyInput,     \* the arguments given to verifyIdToken
  verified         \* the options verifyIdToken passed on, and the outcome

vars ==
  <<localStorage, sessionStorage, idToken, refreshToken, accessTokenMap,
    oidcConfig, pc, kind, arg, cfg, codeVerifier, url, error, revoked, ops,
    assigned, fetchCount, sessionRead, token, payloadString, decoded,
    verifyInput, verified>>

\* The client's fields, storage and calls.
clientVars ==
  <<localStorage, sessionStorage, idToken, refreshToken, accessTokenMap,
    oidcConfig, pc, kind, arg, cfg, codeVerifier, url, error, revoked, ops,
    assigned, fetchCount>>

\* What is outside the sign-in / sign-out calls.
utilVars == <<token, payloadString, decoded, verifyInput, verified>>
readVars == <<sessionRead, utilVars>>

tokenVars == <<localStorage, idToken, refreshToken, accessTokenMap>>

NoUrl ==
  [endSessionEndpoint |-> UNDEFINED, idToken |-> UNDEFINED,
   postLogoutRedirectUri |-> UNDEFINED]

\* No read of signInSession was made yet.
NotRead == <<"none">>

\* A base64url text: its number of characters, the '=' appended to it, and the
\* bytes its characters stand for. The bytes are those of a text made of a
\* shape (the JSON around the string values), the bytes of its string values
\* and trailing spaces.
NoBytes == [shape |-> <<"empty">>, stringBytes |-> <<>>, spaces |-> 0]
Base64Text(n, bytes) == [chars |-> n, padding |-> 0, bytes |-> bytes]
EmptySegment == Base64Text(0, NoBytes)

\* decodeToken and verifyIdToken were not called yet.
NoToken == <<>>
NotDecoded == <<"none">>
NoVerifyInput == [JWKS |-> "none", idToken |-> "none", audience |-> "none"]
NotVerified == <<"none">>

UtilIdle ==
  /\ token = NoToken
  /\ payloadString = EmptySegment
  /\ decoded = NotDecoded
  /\ verifyInput = NoVerifyInput
  /\ verified = NotVerified

\* ------------------------------------------------------------ constructor
\* The durable slots an earlier page load can have left: nothing, an ID token,
\* or an ID token and a refresh token.
OwnLocalStorages ==
  { [k \in LocalKeys |-> NULL],
    [k \in LocalKeys |-> IF k = IdTokenKey THEN StoredIdToken ELSE NULL],
    [k \in LocalKeys |->
       IF k = IdTokenKey THEN StoredIdToken ELSE StoredRefreshToken] }

\* The slots of the other client instance, as it left them.
OtherLocalSlots == [k \in OtherLocalKeys |-> OtherStoredToken]
OtherSessionSlots == [k \in OtherSessionKeys |-> Stringify(OtherItem)]

InitialLocalStorages == {own @@ OtherLocalSlots : own \in OwnLocalStorages}

InitialSessionStorages ==
  { [k \in SessionKeys |-> NoItem] @@ OtherSessionSlots,
    [k \in SessionKeys |-> Stringify(PriorItem)] @@ OtherSessionSlots }

\* Mutant: the constructor reads the refresh-token slot into idToken.
ConstructIdToken_WrongKey(ls) == conditional(ls[RefreshTokenKey])

\* constructor: the token fields are read once from durable storage.
ConstructIdToken(ls) == conditional(ls[IdTokenKey])
ConstructRefreshToken(ls) == conditional(ls[RefreshTokenKey])

\* The state after construction, over the given session storages.
ClientInit(sessionStorages) ==
  /\ localStorage \in InitialLocalStorages
  /\ sessionStorage \in sessionStorages
  /\ idToken = ConstructIdToken(localStorage)
  /\ refreshToken = ConstructRefreshToken(localStorage)
  /\ accessTokenMap = {}
  /\ oidcConfig = NoConfig
  /\ pc = [c \in Calls |-> "idle"]
  /\ kind = [c \in Calls |-> "none"]
  /\ arg = [c \in Calls |-> UNDEFINED]
  /\ cfg = [c \in Calls |-> NoConfig]
  /\ codeVerifier = [c \in Calls |-> EmptyString]
  /\ url = [c \in Calls |-> NoUrl]
  /\ error = [c \in Calls |-> "none"]
  /\ revoked = [c \in Calls |-> "none"]
  /\ ops = [c \in Calls |-> <<>>]
  /\ assigned = <<>>
  /\ fetchCount = 0
  /\ sessionRead = NotRead

InitOver(sessionStorages) == ClientInit(sessionStorages) /\ UtilIdle

Init == InitOver(InitialSessionStorages)

\* get isAuthenticated
isAuthenticated == Boolean(idToken)

\* ---------------------------------------------------------- storage calls
removeItem(store, key) ==
  [store EXCEPT ![key] = IF key \in LocalKeys \cup OtherLocalKeys THEN NULL ELSE NoItem]
setItem(store, key, value) == [store EXCEPT ![key] = value]

\* set signInSession(item): an absent item removes the slot, a present one is
\* stored as JSON text.
\* The Optional item is <<>> (undefined) or <<item>>.
\* Mutant: an item already stored is kept.
SetSignInSession_KeepsExisting(ss, optItem) ==
  IF optItem = <<>>
    THEN removeItem(ss, logtoStorageKey)
    ELSE IF ss[logtoStorageKey] # NoItem THEN ss
    ELSE setItem(ss, logtoStorageKey, Stringify(optItem[1]))

SetSignInSession(ss, optItem) ==
  IF optItem = <<>>
    THEN removeItem(ss, logtoStorageKey)
    ELSE setItem(ss, logtoStorageKey, Stringify(optItem[1]))

\* JSON.parse(text): the value of a JSON text; any other text throws.
IsJson(text) == text[1] \in {"json", "jsonnull"}

\* assert(item, LogtoSignInSessionItemSchema): an object with string
\* redirectUri, codeVerifier and state (other fields are let through).
SessionItemFields == {"redirectUri", "codeVerifier", "state"}
MatchesSessionItemSchema(text) ==
  /\ text[1] = "json"
  /\ \A f \in SessionItemFields :
       f \in DOMAIN text[2] /\ text[2][f][1] = "string"

\* The JavaScript object a JSON object text parses to.
Parsed(text) == [f \in DOMAIN text[2] |-> text[2][f][2]]

\* !jsonItem: null and the empty string are falsy.
IsFalsyText(text) == text = NoItem \/ text = EmptyText

\* get signInSession: undefined without a stored text, the parsed item when
\* the text is JSON and matches the schema, LogtoClientError otherwise.
GetSignInSession(ss) ==
  LET jsonItem == ss[logtoStorageKey]
  IN IF IsFalsyText(jsonItem) THEN <<"undefined">>
     ELSE IF IsJson(jsonItem) /\ MatchesSessionItemSchema(jsonItem)
       THEN <<"item", Parsed(jsonItem)>>
       ELSE <<"error", "sign_in_session.invalid">>

\* ------------------------------------------------------------ scheduling
\* One call runs at a time: a call that is between two statements of one
\* synchronous run (pc "assign") holds the thread until that run ends.
ThreadFree == \A c \in Calls : pc[c] # "assign"

\* Calls are made one after the other; call c is the next one to be made.
IsNextCall(c) == pc[c] = "idle" /\ \A d \in Calls : d < c => pc[d] # "idle"

\* ----------------------------------------------------------- getOidcConfig
\* getOidcConfig() up to its await: a cached document is returned as it is,
\* otherwise fetchOidcConfig is invoked and the call waits for it.
NeedsFetch(config) == config = NoConfig

\* A direct call is over once getOidcConfig() has answered; signIn and signOut
\* go on from their await in a later run.
Answered(k) == IF k = "getOidcConfig" THEN "done" ELSE "gotConfig"

EnterGetOidcConfig(c, k) ==
  IF NeedsFetch(oidcConfig)
    THEN /\ pc' = [pc EXCEPT ![c] = "fetching"]
         /\ fetchCount' = fetchCount + 1
         /\ cfg' = cfg
    ELSE /\ pc' = [pc EXCEPT ![c] = Answered(k)]
         /\ fetchCount' = fetchCount
         /\ cfg' = [cfg EXCEPT ![c] = oidcConfig]

\* A direct call of getOidcConfig().
CallGetOidcConfig(c) ==
  /\ ThreadFree
  /\ IsNextCall(c)
  /\ kind' = [kind EXCEPT ![c] = "getOidcConfig"]
  /\ EnterGetOidcConfig(c, "getOidcConfig")
  /\ UNCHANGED <<tokenVars, sessionStorage, oidcConfig, arg, codeVerifier, url,
                 error, revoked, ops, assigned>>

\* The documents a fetch can resolve with. Which document the provider serves
\* first is immaterial, so the first fetch to resolve gets ConfigA; a later
\* one gets the same document or a changed one.
Served(cached) == IF cached = NoConfig THEN {ConfigA} ELSE Configs

\* fetchOidcConfig resolves with document v: it is assigned to this.oidcConfig
\* and this.oidcConfig is returned.
CachedAfterFetch(old, v) == v

FetchResolve(c, v) ==
  /\ ThreadFree
  /\ pc[c] = "fetching"
  /\ oidcConfig' = CachedAfterFetch(oidcConfig, v)
  /\ cfg' = [cfg EXCEPT ![c] = oidcConfig']
  /\ pc' = [pc EXCEPT ![c] = Answered(kind[c])]
  /\ UNCHANGED <<tokenVars, sessionStorage, kind, arg, codeVerifier, url, error,
                 revoked, ops, assigned, fetchCount>>

\* Mutant: a failed fetch is cached as if it were a document.
CachedAfterFetchError_Poisoned(old) ==
  [authorizationEndpoint |-> "", endSessionEndpoint |-> "", revocationEndpoint |-> ""]

\* fetchOidcConfig throws: the error leaves getOidcConfig and its caller.
CachedAfterFetchError(old) == old

FetchReject(c) ==
  /\ ThreadFree
  /\ pc[c] = "fetching"
  /\ oidcConfig' = CachedAfterFetchError(oidcConfig)
  /\ pc' = [pc EXCEPT ![c] = "failed"]
  /\ error' = [error EXCEPT ![c] = "fetchOidcConfig"]
  /\ UNCHANGED <<tokenVars, sessionStorage, kind, arg, cfg, codeVerifier, url,
                 revoked, ops, assigned, fetchCount>>

\* ------------------------------------------------------------------ signIn
\* signIn(redirectUri) up to its first await.
CallSignIn(c, redirectUri) ==
  /\ ThreadFree
  /\ IsNextCall(c)
  /\ kind' = [kind EXCEPT ![c] = "signIn"]
  /\ arg' = [arg EXCEPT ![c] = redirectUri]
  /\ EnterGetOidcConfig(c, "signIn")
  /\ UNCHANGED <<tokenVars, sessionStorage, oidcConfig, codeVerifier, url, error,
                 revoked, ops, assigned>>

\* Mutant: the session item is stored before the code challenge is awaited.
SignInResume_StoresEarly(c) ==
  /\ ThreadFree
  /\ pc[c] = "gotConfig"
  /\ kind[c] = "signIn"
  /\ codeVerifier' = [codeVerifier EXCEPT ![c] = generateCodeVerifier(c)]
  /\ sessionStorage' =
       SetSignInSession(sessionStorage,
                        <<[redirectUri |-> arg[c],
                           codeVerifier |-> generateCodeVerifier(c),
                           state |-> generateState(c)]>>)
  /\ pc' = [pc EXCEPT ![c] = "challenge"]
  /\ UNCHANGED <<tokenVars, oidcConfig, kind, arg, cfg, url, error, revoked,
                 ops, assigned, fetchCount>>

\* After the discovery document: the code verifier is drawn and its challenge
\* is asked for.
SignInResume(c) ==
  /\ ThreadFree
  /\ pc[c] = "gotConfig"
  /\ kind[c] = "signIn"
  /\ codeVerifier' = [codeVerifier EXCEPT ![c] = generateCodeVerifier(c)]
  /\ pc' = [pc EXCEPT ![c] = "challenge"]
  /\ UNCHANGED <<tokenVars, sessionStorage, oidcConfig, kind, arg, cfg, url,
                 error, revoked, ops, assigned, fetchCount>>

\* generateSignInUri(...)
generateSignInUri(authorizationEndpoint, redirectUri, codeChallenge, state, scopes) ==
  [authorizationEndpoint |-> authorizationEndpoint, clientId |-> clientId,
   redirectUri |-> redirectUri, codeChallenge |-> codeChallenge,
   state |-> state, scopes |-> scopes, resources |-> resources]

\* Mutant: the code verifier is stored in the place of the state.
SignInSessionItem_StateIsVerifier(redirectUri, verifier, state) ==
  [redirectUri |-> redirectUri, codeVerifier |-> verifier, state |-> verifier]

\* The item signIn stores: { redirectUri, codeVerifier, state }.
SignInSessionItem(redirectUri, verifier, state) ==
  [redirectUri |-> redirectUri, codeVerifier |-> verifier, state |-> state]

\* The code challenge has arrived: the state is drawn, the session item is
\* stored and the user agent is sent to the authorization endpoint.
SignInFinish(c) ==
  /\ ThreadFree
  /\ pc[c] = "challenge"
  /\ LET state == generateState(c)
         signInUri ==
           generateSignInUri(cfg[c].authorizationEndpoint, arg[c],
                             generateCodeChallenge(codeVerifier[c]), state,
                             withReservedScopes(customScopes))
     IN /\ sessionStorage' =
             SetSignInSession(sessionStorage,
                              <<SignInSessionItem(arg[c], codeVerifier[c], state)>>)
        /\ ops' = [ops EXCEPT ![c] = Append(@, <<"session", "setItem", logtoStorageKey>>)]
        /\ assigned' = Append(assigned, [by |-> c, to |-> "signIn", uri |-> signInUri])
  /\ pc' = [pc EXCEPT ![c] = "done"]
  /\ UNCHANGED <<tokenVars, oidcConfig, kind, arg, cfg, codeVerifier, url, error,
                 revoked, fetchCount>>

\* generateCodeChallenge throws: signIn is rejected.
SignInChallengeReject(c) ==
  /\ ThreadFree
  /\ pc[c] = "challenge"
  /\ pc' = [pc EXCEPT ![c] = "failed"]
  /\ error' = [error EXCEPT ![c] = "generateCodeChallenge"]
  /\ UNCHANGED <<tokenVars, sessionStorage, oidcConfig, kind, arg, cfg,
                 codeVerifier, url, revoked, ops, assigned, fetchCount>>

\* ----------------------------------------------------------------- signOut
\* signOut(postLogoutRedirectUri) up to its first await: nothing is done
\* without an ID token.
\* Mutant: the ID-token check is missing.
SignOutReturnsEarly_Never(tok) == FALSE
SignOutReturnsEarly(tok) == ~Boolean(tok)

CallSignOut(c, postLogoutRedirectUri) ==
  /\ ThreadFree
  /\ IsNextCall(c)
  /\ kind' = [kind EXCEPT ![c] = "signOut"]
  /\ arg' = [arg EXCEPT ![c] = postLogoutRedirectUri]
  /\ IF SignOutReturnsEarly(idToken)
       THEN /\ pc' = [pc EXCEPT ![c] = "done"]
            /\ UNCHANGED <<cfg, fetchCount>>
       ELSE EnterGetOidcConfig(c, "signOut")
  /\ UNCHANGED <<tokenVars, sessionStorage, oidcConfig, codeVerifier, url, error,
                 revoked, ops, assigned>>

\* generateSignOutUri({ endSessionEndpoint, postLogoutRedirectUri, idToken })
generateSignOutUri(endSessionEndpoint, postLogoutRedirectUri, tok) ==
  [endSessionEndpoint |-> endSessionEndpoint, idToken |-> tok,
   postLogoutRedirectUri |-> postLogoutRedirectUri]

\* The durable slots, the token fields and the access-token map after
\* signOut has cleared them.
\* Mutant: signOut empties the whole durable storage (localStorage.clear()).
ClearedLocalStorage_ClearsAll(ls) == [k \in DOMAIN ls |-> NULL]

\* Mutant: signOut forgets the refresh-token slot.
ClearedLocalStorage_KeepsRefreshToken(ls) == removeItem(ls, IdTokenKey)
ClearedLocalStorage(ls) == removeItem(removeItem(ls, IdTokenKey), RefreshTokenKey)
\* Mutant: signOut leaves this.idToken as it is.
ClearedIdToken_Kept(tok) == tok
ClearedIdToken(tok) == UNDEFINED
ClearedRefreshToken(tok) == UNDEFINED
ClearedAccessTokenMap(map) == {}
\* Mutant: signOut also removes the sign-in session slot.
SessionAfterSignOut_Removes(ss) == removeItem(ss, logtoStorageKey)
SessionAfterSignOut(ss) == ss

\* signOut from the sign-out URL to the clearing of the token state; the
\* redirect is the next statement of the same run.
SignOutClear(c) ==
  /\ url' = [url EXCEPT ![c] =
               generateSignOutUri(cfg[c].endSessionEndpoint, arg[c], idToken)]
  /\ localStorage' = ClearedLocalStorage(localStorage)
  /\ ops' = [ops EXCEPT ![c] =
               @ \o << <<"local", "removeItem", IdTokenKey>>,
                       <<"local", "removeItem", RefreshTokenKey>> >>]
  /\ accessTokenMap' = ClearedAccessTokenMap(accessTokenMap)
  /\ idToken' = ClearedIdToken(idToken)
  /\ refreshToken' = ClearedRefreshToken(refreshToken)
  /\ sessionStorage' = SessionAfterSignOut(sessionStorage)
  /\ pc' = [pc EXCEPT ![c] = "assign"]

\* After the discovery document: with a refresh token revoke() is called and
\* awaited, without one the run goes on to the clearing.
SignOutResume(c) ==
  /\ ThreadFree
  /\ pc[c] = "gotConfig"
  /\ kind[c] = "signOut"
  /\ IF Boolean(refreshToken)
       THEN /\ pc' = [pc EXCEPT ![c] = "revoking"]
            /\ revoked' = [revoked EXCEPT ![c] = "called"]
            /\ UNCHANGED <<tokenVars, sessionStorage, url, ops>>
       ELSE /\ SignOutClear(c)
            /\ UNCHANGED revoked
  /\ UNCHANGED <<oidcConfig, kind, arg, cfg, codeVerifier, error, assigned,
                 fetchCount>>

\* revoke() returns.
RevokeReturn(c) ==
  /\ ThreadFree
  /\ pc[c] = "revoking"
  /\ revoked' = [revoked EXCEPT ![c] = "returned"]
  /\ SignOutClear(c)
  /\ UNCHANGED <<oidcConfig, kind, arg, cfg, codeVerifier, error, assigned,
                 fetchCount>>

\* Mutant: no catch block, the error of revoke() leaves signOut.
AfterRevokeThrow_Rethrows(c) ==
  /\ pc' = [pc EXCEPT ![c] = "failed"]
  /\ error' = [error EXCEPT ![c] = "revoke"]
  /\ UNCHANGED <<tokenVars, sessionStorage, url, ops>>

\* revoke() throws: the catch block drops the error and signOut goes on.
AfterRevokeThrow(c) == SignOutClear(c) /\ UNCHANGED error

RevokeThrow(c) ==
  /\ ThreadFree
  /\ pc[c] = "revoking"
  /\ revoked' = [revoked EXCEPT ![c] = "threw"]
  /\ AfterRevokeThrow(c)
  /\ UNCHANGED <<oidcConfig, kind, arg, cfg, codeVerifier, assigned, fetchCount>>

\* window.location.assign(url), the last statement of signOut.
SignOutAssign(c) ==
  /\ pc[c] = "assign"
  /\ assigned' = Append(assigned, [by |-> c, to |-> "signOut", uri |-> url[c]])
  /\ pc' = [pc EXCEPT ![c] = "done"]
  /\ UNCHANGED <<tokenVars, sessionStorage, oidcConfig, kind, arg, cfg,
                 codeVerifier, url, error, revoked, ops, fetchCount>>

\* ------------------------------------------------------------ specification
\* A call is made.
Call(c) ==
  \/ CallGetOidcConfig(c)
  \/ \E r \in RedirectUris : CallSignIn(c, r)
  \/ \E p \in PostLogoutUris : CallSignOut(c, p)

\* A call that was made goes on: a collaborator answers it, or it is resumed
\* from its await.
Continue(c) ==
  \/ \E v \in Served(oidcConfig) : FetchResolve(c, v)
  \/ FetchReject(c)
  \/ SignInResume(c)
  \/ SignInFinish(c)
  \/ SignInChallengeReject(c)
  \/ SignOutResume(c)
  \/ RevokeReturn(c)
  \/ RevokeThrow(c)
  \/ SignOutAssign(c)

Next == (\E c \in Calls : Call(c) \/ Continue(c)) /\ UNCHANGED readVars

Spec == Init /\ [][Next]_vars

\* Every collaborator call answers and the event loop runs every call that can
\* go on: as long as some call can go on, one does.
Fairness == WF_vars((\E c \in Calls : Continue(c)) /\ UNCHANGED readVars)

FairSpec == Spec /\ Fairness

\* ------------------------------------------------- the sign-in session store
\* The JSON value of field f of a stored object: the string a sign-in
\* stores there, or a number.
FieldValue(f, type) ==
  IF type = "number" THEN JsonNumber(5)
  ELSE JsonString(IF f = "redirectUri" THEN "https://app/cb1"
                  ELSE IF f = "codeVerifier" THEN generateCodeVerifier(0)
                  ELSE IF f = "state" THEN generateState(0)
                  ELSE "x")

\* The JSON objects a slot can hold: any of the item's fields and one more
\* field, each present or not, each a string or a number.
StoredObjects ==
  UNION { { [f \in D |-> FieldValue(f, type[f])] :
              type \in [D -> {"string", "number"}] } :
            D \in SUBSET (SessionItemFields \cup {"extra"}) }

\* What the slot K can hold when the client reads it: nothing, the empty
\* string, a text that is not JSON, the JSON text null, a JSON object.
SlotTexts ==
  {NoItem, EmptyText, NotJsonText, JsonNullText}
    \cup {JsonText(obj) : obj \in StoredObjects}

AnySessionStorages ==
  { [k \in SessionKeys |-> t] @@ OtherSessionSlots : t \in SlotTexts }

\* A read of signInSession.
ReadSignInSession ==
  /\ sessionRead' = GetSignInSession(sessionStorage)
  /\ UNCHANGED <<clientVars, utilVars>>

\* An assignment to signInSession: undefined, or an item.
WriteSignInSession(optItem) ==
  /\ sessionStorage' = SetSignInSession(sessionStorage, optItem)
  /\ UNCHANGED <<tokenVars, oidcConfig, pc, kind, arg, cfg, codeVerifier, url,
                 error, revoked, ops, assigned, fetchCount, sessionRead,
                 utilVars>>

SessionNext ==
  \/ ReadSignInSession
  \/ \E optItem \in {<<>>, <<PriorItem>>} : WriteSignInSession(optItem)

\* The sign-in session store alone, read over every slot content.
SessionSpec == InitOver(AnySessionStorages) /\ [][SessionNext]_vars

\* ---------------------------------------------------------------- ID tokens
\* Texts are sequences of code points, byte strings sequences of bytes.
\* The characters used: A, e-acute (U+00E9), A-tilde (U+00C3), the copyright
\* sign (U+00A9) and a CJK character (U+4E2D).
CodePoints == {65, 233, 195, 169, 20013}
ReplacementCharacter == 65533

\* The UTF-8 bytes of a code point (as the issuer of a token writes them).
Utf8Bytes(cp) ==
  IF cp < 128 THEN <<cp>>
  ELSE IF cp < 2048 THEN <<192 + (cp \div 64), 128 + (cp % 64)>>
  ELSE <<224 + (cp \div 4096), 128 + ((cp \div 64) % 64), 128 + (cp % 64)>>

RECURSIVE Utf8Encode(_)
Utf8Encode(text) ==
  IF text = <<>> THEN <<>> ELSE Utf8Bytes(Head(text)) \o Utf8Encode(Tail(text))

IsContinuation(bytes, i) == i <= Len(bytes) /\ bytes[i] >= 128 /\ bytes[i] <= 191

\* Buffer.prototype.toString(): the bytes read as UTF-8, a byte that starts no
\* well-formed sequence read as U+FFFD.
RECURSIVE BufferToString(_)
BufferToString(bytes) ==
  IF bytes = <<>> THEN <<>>
  ELSE LET b == bytes[1]
       IN IF b < 128 THEN <<b>> \o BufferToString(Tail(bytes))
          ELSE IF b >= 194 /\ b <= 223 /\ IsContinuation(bytes, 2)
            THEN <<(b - 192) * 64 + (bytes[2] - 128)>>
                   \o BufferToString(SubSeq(bytes, 3, Len(bytes)))
          ELSE IF b >= 224 /\ b <= 239 /\ IsContinuation(bytes, 2)
                  /\ IsContinuation(bytes, 3)
            THEN <<(b - 224) * 4096 + (bytes[2] - 128) * 64 + (bytes[3] - 128)>>
                   \o BufferToString(SubSeq(bytes, 4, Len(bytes)))
          ELSE <<ReplacementCharacter>> \o BufferToString(Tail(bytes))

\* escape(text): a letter stays, any other code point below 256 becomes %XX
\* and a larger one %uXXXX.
IsEscapeLiteral(cp) == (cp >= 65 /\ cp <= 90) \/ (cp >= 97 /\ cp <= 122)
EscapeUnit(cp) ==
  IF IsEscapeLiteral(cp) THEN <<"literal", cp>>
  ELSE IF cp < 256 THEN <<"%XX", cp>>
  ELSE <<"%uXXXX", cp>>

escape(text) == [i \in 1..Len(text) |-> EscapeUnit(text[i])]

IsPercentContinuation(units, i) ==
  i <= Len(units) /\ units[i][1] = "%XX" /\ units[i][2] >= 128 /\ units[i][2] <= 191

UriError == <<"URIError">>
Text(text) == <<"text", text>>

\* decodeURIComponent(escaped): the %XX bytes are read as UTF-8; a %XX run
\* that is not well-formed UTF-8, or a % not followed by two hex digits (as in
\* %uXXXX), throws URIError. The result is Text(text), or UriError.
RECURSIVE decodeURIComponent(_)
decodeURIComponent(units) ==
  IF units = <<>> THEN Text(<<>>)
  ELSE LET u == units[1]
           b == u[2]
           Then(cp, n) ==
             LET rest == decodeURIComponent(SubSeq(units, n + 1, Len(units)))
             IN IF rest = UriError THEN UriError ELSE Text(<<cp>> \o rest[2])
       IN IF u[1] = "literal" THEN Then(b, 1)
          ELSE IF u[1] = "%uXXXX" THEN UriError
          ELSE IF b < 128 THEN Then(b, 1)
          ELSE IF b >= 194 /\ b <= 223 /\ IsPercentContinuation(units, 2)
            THEN Then((b - 192) * 64 + (units[2][2] - 128), 2)
          ELSE IF b >= 224 /\ b <= 239 /\ IsPercentContinuation(units, 2)
                  /\ IsPercentContinuation(units, 3)
            THEN Then((b - 224) * 4096 + (units[2][2] - 128) * 64
                        + (units[3][2] - 128), 3)
          ELSE UriError

\* Texts of up to MaxTextLen characters.
MaxTextLen == 2
Texts == UNION {[1..n -> CodePoints] : n \in 0..MaxTextLen}

\* Bytes that are no UTF-8 text.
InvalidUtf8 == {<<233>>, <<255>>}
StringBytes == {Utf8Encode(text) : text \in Texts} \cup InvalidUtf8
WellFormedUtf8(bytes) == Utf8Encode(BufferToString(bytes)) = bytes

\* IDTokenSchema: the type each claim must have; at_hash may be missing.
ClaimFields == {"iss", "sub", "aud", "exp", "iat", "at_hash"}
IDTokenSchema ==
  [iss |-> "string", sub |-> "string", aud |-> "string", exp |-> "number",
   iat |-> "number", at_hash |-> "string"]
OptionalClaims == {"at_hash"}

MatchesIDTokenSchema(types) ==
  \A f \in ClaimFields :
    \/ types[f] = IDTokenSchema[f]
    \/ types[f] = "missing" /\ f \in OptionalClaims

\* The JSON objects tried: the claims typed as the schema says, at_hash there
\* or not, or one claim missing or of the other type. "name" is a claim the
\* schema does not know.
ClaimTypes ==
  { types \in [ClaimFields -> {"string", "number", "missing"}] :
      Cardinality({f \in ClaimFields : types[f] # IDTokenSchema[f]}) <= 1 }

JsonShapes == {<<"object", types>> : types \in ClaimTypes}
NotJsonShape == <<"text">>
JsonNullShape == <<"null">>

\* Up to MaxSpaces spaces end the text.
MaxSpaces == 2

PayloadBytes ==
  {[shape |-> sh, stringBytes |-> b, spaces |-> n] :
     sh \in JsonShapes \cup {NotJsonShape}, b \in StringBytes, n \in 0..MaxSpaces}
  \cup {[shape |-> JsonNullShape, stringBytes |-> <<>>, spaces |-> n] :
          n \in 0..MaxSpaces}

\* The number of bytes of a text: of an object {"iss":"..","exp":2,..} its
\* braces, names, quotes, colons, commas and values; of null its 4 letters;
\* of a text that is no JSON, that text.
NameLength(f) == IF f = "at_hash" THEN 7 ELSE 3
MemberLength(types, f, n) ==
  IF types[f] = "missing" THEN 0
  ELSE NameLength(f) + 4 + (IF types[f] = "string" THEN n + 2 ELSE 1)
ObjectLength(types, n) ==
  2 + MemberLength(types, "iss", n) + MemberLength(types, "sub", n)
    + MemberLength(types, "aud", n) + MemberLength(types, "exp", n)
    + MemberLength(types, "iat", n) + MemberLength(types, "at_hash", n) - 1
ByteLength(bytes) ==
  bytes.spaces
    + (IF bytes.shape[1] = "object"
         THEN ObjectLength(bytes.shape[2], Len(bytes.stringBytes))
       ELSE IF bytes.shape[1] = "null" THEN 4
       ELSE Len(bytes.stringBytes))

\* The unpadded base64url text of n bytes has (4n + 2) div 3 characters.
Base64Length(n) == (4 * n + 2) \div 3
Base64Url(bytes) == Base64Text(Base64Length(ByteLength(bytes)), bytes)

\* The empty text makes the empty part.
PayloadParts == {Base64Url(bytes) : bytes \in {b \in PayloadBytes : ByteLength(b) > 0}}

Header ==
  Base64Text(4, [shape |-> <<"header">>, stringBytes |-> <<>>, spaces |-> 0])
Signature ==
  Base64Text(4, [shape |-> <<"signature">>, stringBytes |-> <<>>, spaces |-> 0])

\* token.split('.') for the tokens tried: "", "h", "h.", "h..s", "h.p" and
\* "h.p.s".
Tokens ==
  {<<EmptySegment>>, <<Header>>, <<Header, EmptySegment>>,
   <<Header, EmptySegment, Signature>>}
  \cup {<<Header, p>> : p \in PayloadParts}
  \cup {<<Header, p, Signature>> : p \in PayloadParts}

\* input.length
TextLength(input) == input.chars + input.padding
WithPadding(input, n) == [input EXCEPT !.padding = @ + n]

fullfillBase64(input) ==
  IF TextLength(input) = 2 THEN WithPadding(input, 2)
  ELSE IF TextLength(input) = 3 THEN WithPadding(input, 1)
  ELSE input

\* Buffer.from(text, 'base64'): the bytes the characters stand for, whether
\* the text is padded or not.
BufferFromBase64(text) == text.bytes

\* The number a numeric claim carries.
ClaimNumber(f) == IF f = "exp" THEN 2 ELSE IF f = "iat" THEN 1 ELSE 7

\* JSON.parse of a text of the given shape whose string values read as text.
JsonParse(shape, text) ==
  IF shape[1] = "object"
    THEN <<"object",
           [f \in {g \in ClaimFields : shape[2][g] # "missing"} |->
              IF shape[2][f] = "string" THEN JsonString(text)
              ELSE JsonNumber(ClaimNumber(f))]>>
  ELSE IF shape[1] = "null" THEN <<"null">>
  ELSE <<"SyntaxError">>

\* s.assert(data, IDTokenSchema) passes.
IsIDToken(data) ==
  /\ data[1] = "object"
  /\ \A f \in ClaimFields :
       IF f \in DOMAIN data[2]
         THEN data[2][f][1] = IDTokenSchema[f]
         ELSE f \in OptionalClaims

InvalidToken == <<"Error", "invalid token">>
ParseFailed == <<"Error", "invalid token: JSON parse failed">>
StructError == <<"StructError">>

\* token.split('.')[1]
PayloadPart(segments) == IF Len(segments) >= 2 THEN segments[2] ELSE EmptySegment

\* !payloadPart: undefined, or the empty string.
NoPayloadPart(segments) ==
  Len(segments) < 2 \/ TextLength(segments[2]) = 0

\* decodeURIComponent(escape(Buffer.from(...).toString())), applied to the
\* string values of the text.
DecodedJson(padded) ==
  decodeURIComponent(escape(BufferToString(BufferFromBase64(padded).stringBytes)))

\* The try block of decodeToken and its catch.
ParseIDToken(shape, text) ==
  LET data == JsonParse(shape, text)
  IN IF data = <<"SyntaxError">> THEN ParseFailed
     ELSE IF ~IsIDToken(data) THEN StructError
     ELSE <<"IDToken", data[2]>>

decodeTokenResult(segments) ==
  IF NoPayloadPart(segments) THEN InvalidToken
  ELSE LET padded == fullfillBase64(PayloadPart(segments))
           json == DecodedJson(padded)
       IN IF json = UriError THEN UriError
          ELSE ParseIDToken(BufferFromBase64(padded).shape, json[2])

\* decodeToken(token)
DecodeToken ==
  /\ decoded = NotDecoded
  /\ token # NoToken
  /\ payloadString' =
       IF NoPayloadPart(token) THEN payloadString
       ELSE fullfillBase64(PayloadPart(token))
  /\ decoded' = decodeTokenResult(token)
  /\ UNCHANGED <<clientVars, sessionRead, token, verifyInput, verified>>

TokenInit ==
  /\ ClientInit(InitialSessionStorages)
  /\ idToken = UNDEFINED
  /\ sessionStorage[logtoStorageKey] = NoItem
  /\ token \in Tokens
  /\ payloadString = EmptySegment
  /\ decoded = NotDecoded
  /\ verifyInput = NoVerifyInput
  /\ verified = NotVerified

TokenNext == DecodeToken

\* decodeToken alone, over the tokens tried.
TokenSpec == TokenInit /\ [][TokenNext]_vars

\* The constants of '../constants'.
EXPECTED_ALG == "EXPECTED_ALG"
CLOCK_TOLERANCE == 60

\* The JWTs given to verifyIdToken: the alg of the header, the key source whose
\* key signed it, its aud claim, and the seconds since its exp claim.
Algorithms == {EXPECTED_ALG, "HS256", "none"}
KeySources == {"jwks-a", "jwks-b"}
Audiences == {"app-a", "app-b"}
Jwts ==
  [alg : Algorithms, signedBy : KeySources, aud : Audiences,
   expiredFor : {-30, 30, 120}]

\* jose's jwtVerify: the algorithm allow-list first, then the signature, then
\* the audience and the expiry within the clock tolerance.
jwtVerify(jwt, JWKS, options) ==
  IF jwt.alg \notin options.algorithms THEN <<"AlgorithmMismatch">>
  ELSE IF jwt.signedBy # JWKS THEN <<"SignatureInvalid">>
  ELSE IF jwt.aud # options.audience THEN <<"AudienceMismatch">>
  ELSE IF jwt.expiredFor >= options.clockTolerance THEN <<"TokenExpired">>
  ELSE <<"JWTVerifyResult", jwt>>

VerifyOptions_AnyAlgorithm(audience) ==
  [algorithms |-> Algorithms, clockTolerance |-> CLOCK_TOLERANCE,
   audience |-> audience]

\* The options verifyIdToken gives to jwtVerify.
VerifyOptions(audience) ==
  [algorithms |-> {EXPECTED_ALG}, clockTolerance |-> CLOCK_TOLERANCE,
   audience |-> audience]

\* verifyIdToken(JWKS, idToken, audience)
VerifyIdToken ==
  /\ verified = NotVerified
  /\ verifyInput.JWKS # "none"
  /\ LET options == VerifyOptions(verifyInput.audience)
     IN verified' =
          <<"called", options,
            jwtVerify(verifyInput.idToken, verifyInput.JWKS, options)>>
  /\ UNCHANGED <<clientVars, sessionRead, token, payloadString, decoded,
                 verifyInput>>

VerifyInit ==
  /\ ClientInit(InitialSessionStorages)
  /\ idToken = UNDEFINED
  /\ sessionStorage[logtoStorageKey] = NoItem
  /\ token = NoToken
  /\ payloadString = EmptySegment
  /\ decoded = NotDecoded
  /\ verifyInput \in [JWKS : KeySources, idToken : Jwts, audience : Audiences]
  /\ verified = NotVerified

VerifyNext == VerifyIdToken

\* verifyIdToken alone, over the key sources, JWTs and audiences tried.
VerifySpec == VerifyInit /\ [][VerifyNext]_vars

TypeOK ==
  /\ pc \in [Calls -> {"idle", "fetching", "gotConfig", "challenge", "revoking",
                       "assign", "done", "failed"}]
  /\ kind \in [Calls -> {"none", "getOidcConfig", "signIn", "signOut"}]
  /\ oidcConfig \in Configs \cup {NoConfig}
  /\ idToken \in {UNDEFINED, StoredIdToken}
  /\ refreshToken \in {UNDEFINED, StoredRefreshToken}
  /\ fetchCount \in 0..MaxCalls
  /\ Len(assigned) <= MaxCalls

\* ------------------------------------------------------------------ claims
\* All token state is cleared: the token fields absent, the access-token map
\* empty, both durable slots absent.
TokenStateCleared ==
  /\ idToken = UNDEFINED
  /\ refreshToken = UNDEFINED
  /\ accessTokenMap = {}
  /\ localStorage[IdTokenKey] = NULL
  /\ localStorage[RefreshTokenKey] = NULL

\* Call c is a signOut that has issued its end-session redirect.
SignOutRedirected(c) ==
  /\ kind[c] = "signOut"
  /\ pc[c] = "done"
  /\ \E i \in 1..Len(assigned) : assigned[i].by = c /\ assigned[i].to = "signOut"

\* C1: single flight. At most one fetchOidcConfig is in flight at any time (calls
\* made before the first fetch resolves share it) and all callers that got a
\* discovery document got the same one.
C1_SingleFlight ==
  /\ Cardinality({c \in Calls : pc[c] = "fetching"}) <= 1
  /\ \A c, d \in Calls :
       (cfg[c] # NoConfig /\ cfg[d] # NoConfig) => cfg[c] = cfg[d]

\* C2: whenever a signOut is about to issue window.location.assign, all token
\* state is already cleared.
C2_ClearedBeforeRedirect ==
  \A c \in Calls : pc[c] = "assign" => TokenStateCleared

\* C2 witness: a signOut that held an ID token and a refresh token stands right
\* before its redirect.
C2_Witness ==
  \E c \in Calls :
    /\ pc[c] = "assign"
    /\ url[c].idToken = StoredIdToken
    /\ revoked[c] # "none"

\* C3: a signOut whose revoke() threw is not rejected, has cleared the token
\* state, and once it is over has issued its end-session redirect.
C3_RevokeFailureSwallowed ==
  \A c \in Calls :
    revoked[c] = "threw" =>
      /\ pc[c] \in {"assign", "done"}
      /\ error[c] = "none"
      /\ TokenStateCleared
      /\ pc[c] = "done" => SignOutRedirected(c)

\* C3 witness: a signOut whose revoke() threw is over.
C3_Witness ==
  \E c \in Calls : revoked[c] = "threw" /\ pc[c] = "done" /\ url[c].idToken = StoredIdToken

\* C4 as claimed: every signOut that got past the ID-token check eventually
\* has the token state cleared, whatever the discovery fetch and revoke() do.
C4_AlwaysCompletes ==
  \A c \in Calls :
    (kind[c] = "signOut" /\ pc[c] \in {"fetching", "gotConfig", "revoking"})
      ~> TokenStateCleared

\* C4 amended: every signOut whose getOidcConfig() has answered eventually is
\* over with the token state cleared, whatever revoke() does; a signOut whose
\* discovery fetch fails is rejected and leaves the token state as it was.
C4_CompletesOnceConfigured ==
  /\ \A c \in Calls :
       (kind[c] = "signOut" /\ pc[c] \in {"gotConfig", "revoking"})
         ~> (pc[c] = "done" /\ TokenStateCleared)
  /\ [][\A c \in Calls :
          (kind[c] = "signOut" /\ pc[c] = "fetching" /\ pc'[c] = "failed")
            => UNCHANGED tokenVars]_vars

\* C4 witness: a signOut that held an ID token and called revoke() is over
\* with the token state cleared.
C4_Witness ==
  /\ TokenStateCleared
  /\ \E c \in Calls : SignOutRedirected(c) /\ revoked[c] \in {"returned", "threw"}
                      /\ url[c].idToken = StoredIdToken

\* C5: a signOut made without an ID token returns at once and changes nothing:
\* no storage write, no fetch, no revoke, no token change, no redirect.
C5_NoOpWithoutIdToken ==
  [][\A c \in Calls :
       (pc[c] = "idle" /\ kind'[c] = "signOut" /\ ~Boolean(idToken)) =>
         /\ pc'[c] = "done"
         /\ UNCHANGED <<localStorage, sessionStorage, idToken, refreshToken,
                        accessTokenMap, oidcConfig, ops, assigned, fetchCount,
                        revoked, error>>]_vars

\* C5 witness: a signOut made without an ID token is over.
C5_Witness ==
  \E c \in Calls :
    /\ kind[c] = "signOut"
    /\ pc[c] = "done"
    /\ cfg[c] = NoConfig
    /\ ops[c] = <<>>
    /\ idToken = UNDEFINED

\* C6 as claimed: when a signOut issues its redirect the sign-in session slot
\* is absent.
C6_SessionClearedBySignOut ==
  [][\A c \in Calls :
       (kind[c] = "signOut" /\ pc[c] = "assign" /\ pc'[c] = "done")
         => sessionStorage'[logtoStorageKey] = NoItem]_vars

\* C6 amended: signOut clears the token state and never writes the sign-in
\* session slot: every step of a signOut leaves sessionStorage as it was, and
\* the token state is cleared when the redirect is issued.
C6_SessionUntouchedBySignOut ==
  [][\A c \in Calls :
       (kind'[c] = "signOut" /\ pc'[c] # pc[c]) =>
         /\ sessionStorage' = sessionStorage
         /\ (pc[c] = "assign" /\ pc'[c] = "done") => TokenStateCleared']_vars

\* C6 witness: a signOut has issued its redirect and the session item stored
\* before it is still there.
C6_Witness ==
  \E c \in Calls :
    /\ SignOutRedirected(c)
    /\ url[c].idToken = StoredIdToken
    /\ sessionStorage[logtoStorageKey] = Stringify(PriorItem)

\* The signIn calls that are over without an error.
SignedIn == {c \in Calls : kind[c] = "signIn" /\ pc[c] = "done"}

\* The authorization redirects issued so far.
SignInRedirects == {i \in 1..Len(assigned) : assigned[i].to = "signIn"}

\* C7: the step that completes signIn(redirectUri) makes exactly one storage
\* write, of the item {redirectUri, codeVerifier, state} with the given
\* redirectUri, the call's code verifier and the state sent in the
\* authorization URL, both non-empty; the states and the code verifiers of
\* different signIn calls are pairwise distinct.
C7_OneFreshSessionPerSignIn ==
  /\ [][\A c \in Calls :
          (kind[c] = "signIn" /\ pc[c] # "done" /\ pc'[c] = "done") =>
            LET sent == assigned'[Len(assigned')].uri
            IN /\ assigned'[Len(assigned')].by = c
               /\ sessionStorage'[logtoStorageKey] =
                    Stringify([redirectUri |-> arg[c],
                               codeVerifier |-> codeVerifier[c],
                               state |-> sent.state])
               /\ sent.state # EmptyString
               /\ codeVerifier[c] # EmptyString
               /\ sent.codeChallenge = generateCodeChallenge(codeVerifier[c])
               /\ ops'[c] = << <<"session", "setItem", logtoStorageKey>> >>]_vars
  /\ [](\A c, d \in SignedIn : c # d => codeVerifier[c] # codeVerifier[d])
  /\ [](\A i, j \in SignInRedirects :
          i # j => assigned[i].uri.state # assigned[j].uri.state)
  /\ [](\A c \in Calls : (kind[c] = "signIn" /\ pc[c] # "done") => ops[c] = <<>>)

\* C7 witness: two signIn calls are over.
C7_Witness ==
  /\ Cardinality(SignedIn) >= 2
  /\ sessionStorage[logtoStorageKey] # NoItem

\* C8: a failed discovery fetch rejects its caller with the fetch's error and
\* leaves the cache as it was; a call that asks for the document while the
\* cache is empty invokes fetchOidcConfig anew; a fetch that succeeds fills
\* the cache with the document the caller gets.
C8_FetchFailureRetried ==
  /\ [][\A c \in Calls :
          (pc[c] = "fetching" /\ pc'[c] = "failed") =>
            /\ error'[c] = "fetchOidcConfig"
            /\ oidcConfig' = oidcConfig]_vars
  /\ [][\A c \in Calls :
          (pc[c] = "idle" /\ pc'[c] # "idle" /\ oidcConfig = NoConfig
             /\ ~(kind'[c] = "signOut" /\ ~Boolean(idToken))) =>
            /\ pc'[c] = "fetching"
            /\ fetchCount' = fetchCount + 1]_vars
  /\ [][\A c \in Calls :
          (pc[c] = "fetching" /\ pc'[c] \notin {"fetching", "failed"}) =>
            /\ oidcConfig' \in Configs
            /\ cfg'[c] = oidcConfig']_vars

\* C8 witness: a call was rejected by a failed fetch, and a later call has
\* fetched the document and filled the cache.
C8_Witness ==
  \E c, d \in Calls :
    /\ c < d
    /\ pc[c] = "failed" /\ error[c] = "fetchOidcConfig"
    /\ cfg[d] \in Configs /\ oidcConfig = cfg[d]
    /\ fetchCount = 2

\* C9: once a discovery document is cached, the cache never changes and
\* fetchOidcConfig is not invoked again.
C9_CacheImmutable ==
  [][oidcConfig # NoConfig =>
       (oidcConfig' = oidcConfig /\ fetchCount' = fetchCount)]_vars

\* Nothing has been called yet: the state is the one the constructor left.
JustConstructed == \A c \in Calls : pc[c] = "idle"

\* C10: isAuthenticated is true exactly when an ID token is held; it is true
\* after construction over a durable ID-token slot that is set and false once
\* a signOut has issued its redirect.
C10_IsAuthenticatedDerived ==
  /\ isAuthenticated <=> idToken # UNDEFINED
  /\ (JustConstructed /\ localStorage[IdTokenKey] # NULL) => isAuthenticated
  /\ (\E c \in Calls : SignOutRedirected(c)) => ~isAuthenticated

\* C10 witness: a client constructed over a set ID-token slot has signed out.
C10_Witness ==
  /\ ~isAuthenticated
  /\ \E c \in Calls : SignOutRedirected(c) /\ url[c].idToken = StoredIdToken

\* The storage keys of this client instance.
OwnKeys == LocalKeys \cup SessionKeys

\* C11: the client reads and writes only its own keys: every storage write a
\* call makes is on K:idToken, K:refreshToken or K, and the slots of a client
\* instance with another client identifier stay as that instance left them.
C11_OtherClientUntouched ==
  /\ getLogtoKey(otherClientId) # getLogtoKey(clientId)
  /\ OtherLocalKeys \cap LocalKeys = {}
  /\ \A k \in OtherLocalKeys : localStorage[k] = OtherLocalSlots[k]
  /\ \A k \in OtherSessionKeys : sessionStorage[k] = OtherSessionSlots[k]
  /\ \A c \in Calls : \A i \in 1..Len(ops[c]) : ops[c][i][3] \in OwnKeys

\* C11 witness: a signOut that held tokens and a signIn are both over.
C11_Witness ==
  \E c, d \in Calls :
    /\ SignOutRedirected(c) /\ url[c].idToken = StoredIdToken
    /\ kind[d] = "signIn" /\ pc[d] = "done"

\* The slot holds the text of an object with string redirectUri, codeVerifier
\* and state.
WellFormedSlot(text) == text # NoItem /\ MatchesSessionItemSchema(text)

\* C12: a read of signInSession leaves the slot as it is and gives: absent
\* for an absent slot; the stored item for a well-formed one; the error
\* 'sign_in_session.invalid' for every other content (not JSON, or lacking a
\* string redirectUri, codeVerifier or state).
C12_ReadSignInSession ==
  [][sessionRead' # sessionRead =>
       LET text == sessionStorage[logtoStorageKey]
       IN /\ sessionStorage' = sessionStorage
          /\ text = NoItem => sessionRead' = <<"undefined">>
          /\ WellFormedSlot(text) =>
               /\ sessionRead'[1] = "item"
               /\ Stringify([f \in SessionItemFields |-> sessionRead'[2][f]])
                    = JsonText([f \in SessionItemFields |-> text[2][f]])
          /\ (text # NoItem /\ ~WellFormedSlot(text)) =>
               sessionRead' = <<"error", "sign_in_session.invalid">>]_vars

\* decodeToken was called on a token with a payload part.
DecodedPayload == decoded # NotDecoded /\ ~NoPayloadPart(token)

\* C13: for every payload of a length L with L mod 4 in {0, 2, 3}, the text
\* fullfillBase64 hands to the base64 decoder has a length that is a multiple
\* of 4 ('==' appended when L mod 4 is 2, '=' when it is 3, nothing when 0).
C13_PaddingRestored ==
  (DecodedPayload /\ token[2].chars % 4 \in {0, 2, 3})
    => /\ TextLength(payloadString) % 4 = 0
       /\ payloadString.chars = token[2].chars

\* The claims the issuer encoded in the payload part: its bytes read as UTF-8,
\* parsed as JSON.
EncodedClaims(part) == JsonParse(part.bytes.shape, BufferToString(part.bytes.stringBytes))

EncodesIDToken(part) ==
  /\ WellFormedUtf8(part.bytes.stringBytes)
  /\ IsIDToken(EncodedClaims(part))

\* C14: decodeToken fails with 'invalid token' for every token that has no
\* payload part (one segment, or an empty second segment), and for a token of
\* three segments whose payload encodes claims matching the schema it returns
\* exactly those claims.
C14_DecodeReturnsEncodedClaims ==
  decoded # NotDecoded =>
    /\ NoPayloadPart(token) => decoded = InvalidToken
    /\ (Len(token) = 3 /\ ~NoPayloadPart(token) /\ EncodesIDToken(token[2]))
         => decoded = <<"IDToken", EncodedClaims(token[2])[2]>>

\* C15: a payload that is JSON but does not match the schema fails with the
\* StructError, a payload that is not JSON with the parse failure; every
\* failure is 'invalid token', the StructError or the parse failure; and a
\* returned value has every required claim, correctly typed.
C15_FailureKinds ==
  DecodedPayload =>
    LET data == EncodedClaims(token[2])
    IN /\ (data # <<"SyntaxError">> /\ ~IsIDToken(data)) => decoded = StructError
       /\ data = <<"SyntaxError">> => decoded = ParseFailed
       /\ decoded[1] # "IDToken" => decoded \in {InvalidToken, StructError, ParseFailed}
       /\ decoded[1] = "IDToken" => IsIDToken(<<"object", decoded[2]>>)

\* C16: the algorithm allow-list verifyIdToken passes to the verifier is
\* exactly {EXPECTED_ALG}, for every key source, token and audience, and a
\* token signed with another algorithm is rejected, whatever its signature.
C16_AlgorithmPinned ==
  verified[1] = "called" =>
    /\ verified[2].algorithms = {EXPECTED_ALG}
    /\ verifyInput.idToken.alg # EXPECTED_ALG
         => verified[3] = <<"AlgorithmMismatch">>

\* A token of another algorithm, otherwise good, was rejected.
C16_Witness ==
  /\ verified[1] = "called"
  /\ verifyInput.idToken.alg # EXPECTED_ALG
  /\ verifyInput.idToken.signedBy = verifyInput.JWKS
  /\ verifyInput.idToken.aud = verifyInput.audience
  /\ verifyInput.idToken.expiredFor < CLOCK_TOLERANCE
  /\ verified[3] = <<"AlgorithmMismatch">>

\* The end-session redirects issued so far.
SignOutRedirects == {i \in 1..Len(assigned) : assigned[i].to = "signOut"}

\* C17: under any interleaving of signOut calls, generateSignOutUri is never
\* invoked with an absent idToken, and at most one end-session redirect is
\* issued for the ID token the client held.
C17_SignOutUriFromHeldToken ==
  /\ \A c \in Calls : url[c] # NoUrl => url[c].idToken # UNDEFINED
  /\ Cardinality(SignOutRedirects) <= 1

\* The authorization redirect issued last.
LastSignInRedirect ==
  assigned[CHOOSE i \in SignInRedirects : \A j \in SignInRedirects : j <= i]

\* C18: under any interleaving of signIn calls, once an authorization redirect
\* has been issued the sign-in session slot holds the item of the redirect
\* issued last: its state and redirectUri are those of that authorization URL
\* and its codeVerifier is the one that URL's code challenge was derived from.
C18_SlotMatchesLastRedirect ==
  SignInRedirects # {} =>
    LET last == LastSignInRedirect
    IN /\ sessionStorage[logtoStorageKey] =
            Stringify([redirectUri |-> last.uri.redirectUri,
                       codeVerifier |-> codeVerifier[last.by],
                       state |-> last.uri.state])
       /\ last.uri.codeChallenge = generateCodeChallenge(codeVerifier[last.by])

\* Two signIn calls have redirected, the one called second first, over an
\* item stored before them.
C18_Witness ==
  /\ Cardinality(SignInRedirects) = 2
  /\ assigned[1].by = 2
  /\ assigned[2].by = 1
  /\ arg[1] # arg[2]

\* C19: the in-memory token state mirrors the durable storage, at construction
\* and at every point where control is yielded: idToken is present iff the
\* K:idToken slot is, refreshToken is present iff the K:refreshToken slot is.
C19_TokensMirrorStorage ==
  /\ Boolean(idToken) <=> localStorage[IdTokenKey] # NULL
  /\ Boolean(refreshToken) <=> localStorage[RefreshTokenKey] # NULL
  /\ Boolean(idToken) => idToken = localStorage[IdTokenKey]
  /\ Boolean(refreshToken) => refreshToken = localStorage[RefreshTokenKey]

\* A signOut has cleared the tokens the client was constructed with while
\* another call waits at an await.
C19_Witness ==
  \E c, d \in Calls :
    /\ kind[c] = "signOut" /\ pc[c] = "done" /\ url[c] # NoUrl
    /\ revoked[c] # "none"
    /\ pc[d] \in {"fetching", "challenge", "revoking"}
    /\ ~Boolean(idToken) /\ ~Boolean(refreshToken)

\* C20: every step of a signIn call leaves idToken, refreshToken, the
\* access-token map and the durable token slots unchanged; the step in which
\* signIn fails (discovery fetch or code-challenge generation) records the
\* error and leaves the session slot and the redirects as they were; a failed
\* signIn has written nothing and has issued no redirect.
C20_SignInAllOrNothing ==
  /\ [][\A c \in Calls :
          (kind'[c] = "signIn" /\ pc'[c] # pc[c]) =>
            /\ tokenVars' = tokenVars
            /\ pc'[c] = "failed" =>
                 /\ error'[c] \in {"fetchOidcConfig", "generateCodeChallenge"}
                 /\ sessionStorage' = sessionStorage
                 /\ assigned' = assigned]_vars
  /\ [](\A c \in Calls :
          (kind[c] = "signIn" /\ pc[c] = "failed") =>
            /\ ops[c] = <<>>
            /\ \A i \in 1..Len(assigned) : assigned[i].by # c
            /\ sessionStorage[logtoStorageKey] \in
                 {t[logtoStorageKey] : t \in InitialSessionStorages}
                 \cup {Stringify(SignInSessionItem(arg[d], codeVerifier[d], generateState(d))) :
                         d \in SignedIn})

\* A signIn failed at the code challenge over a stored item and held tokens;
\* another failed at the discovery fetch.
C20_Witness ==
  \E c, d \in Calls :
    /\ kind[c] = "signIn" /\ pc[c] = "failed"
    /\ error[c] = "generateCodeChallenge"
    /\ kind[d] = "signIn" /\ pc[d] = "failed"
    /\ error[d] = "fetchOidcConfig"
    /\ sessionStorage[logtoStorageKey] = Stringify(PriorItem)
    /\ Boolean(idToken)

====
